---- MODULE Spec2Model ----
(***************************************************************************)
(* The interview-session agent (component Agent): call status, transcript, *)
(* SDK listener registration, the async handleCall with its connect timer, *)
(* handleDisconnect and the feedback effect; the home page; the auth form  *)
(* with its Firebase and backend calls, and the auth form of               *)
(* components/AuthForm.tsx, which calls neither.                           *)
(*                                                                         *)
(* One action is one browser task: an SDK event delivered to the handlers  *)
(* registered with vapi.on, a click, the continuation of an await, a timer *)
(* callback, a render.  A state setter called outside a React event        *)
(* handler only queues its update: callStatus, messages, isSpeaking and    *)
(* lastMessage are the values of the latest render, the ones the buttons   *)
(* and the closures of that render see, and queue holds what the next      *)
(* render will apply.  The passive effects of a scheduled render run in a  *)
(* task of their own after its commit, and before React renders again or   *)
(* unmounts; the render of a click (Call, End) runs in the click's task,    *)
(* after the pending effects, and its own effects run in that task too.    *)
(* The removal of the component is committed in one task and the cleanup   *)
(* of the listener effect runs in a later one.                             *)
(***************************************************************************)
EXTENDS Integers, Sequences, FiniteSets, TLC

\* ---- bound ----
\* Everything that grows without limit is counted in Load: runs of the
\* listener effect, handleCall invocations, final transcripts delivered,
\* logged SDK errors, runs of the FINISHED branch of the second effect and
\* vapi.stop calls; the speaking indicator counts while it is on.
MaxLoad == 4

\* requests of the home page
MaxRenders == 2

\* submissions of the auth form
MaxSubmits == 2

\* ---- types of the component ----
CallStatus == {"INACTIVE", "CONNECTING", "ACTIVE", "FINISHED"}

AgentTypes == {"generate", "interview"}

Events == {"call-start", "call-end", "message", "speech-start", "speech-end", "error"}

Unset == "undefined"

\* props of the session
interviewId == "interview-1"

userId == "user-1"

feedbackId == "feedback-1"

\* Message events the SDK may deliver (type, transcriptType, role, transcript).
Message ==
  {[type |-> "transcript", transcriptType |-> "final", role |-> "user", transcript |-> "a"],
   [type |-> "transcript", transcriptType |-> "final", role |-> "assistant", transcript |-> "b"],
   [type |-> "transcript", transcriptType |-> "partial", role |-> "user", transcript |-> "a"],
   [type |-> "conversation-update", transcriptType |-> "final", role |-> "assistant", transcript |-> "b"]}

\* Results of createFeedback: resolved {success, feedbackId} or thrown.
FeedbackResults ==
  {[thrown |-> FALSE, success |-> TRUE, feedbackId |-> "feedback-1"],
   [thrown |-> FALSE, success |-> TRUE, feedbackId |-> ""],
   [thrown |-> FALSE, success |-> FALSE, feedbackId |-> "feedback-1"],
   [thrown |-> FALSE, success |-> FALSE, feedbackId |-> Unset],
   [thrown |-> TRUE, success |-> FALSE, feedbackId |-> Unset]}

\* Build-time configuration: the two environment variables and the
\* interviewer constant.  Only the values the session type reads vary.
Environments(t) ==
  IF t = "generate"
    THEN [NEXT_PUBLIC_VAPI_WORKFLOW_ID: {"workflow-1", Unset},
          NEXT_PUBLIC_VAPI_ASSISTANT_ID: {"assistant-1", Unset},
          interviewer: {"interviewer"}]
    ELSE [NEXT_PUBLIC_VAPI_WORKFLOW_ID: {"workflow-1"},
          NEXT_PUBLIC_VAPI_ASSISTANT_ID: {"assistant-1"},
          interviewer: {"interviewer", Unset}]

VARIABLES
  type,           \* prop: 'generate' | 'interview'
  env,            \* process.env values and the interviewer constant
  phase,          \* "new" (rendered, effects not run), "mounted", "unmounted"
                  \* (removed; the cleanup of the listener effect runs later)
  callStatus,     \* useState<CallStatus>: the value of the latest render
  messages,       \* useState<SavedMessage[]>: the value of the latest render
  isSpeaking,     \* useState(false): the value of the latest render
  lastMessage,    \* useState<string>(""): the value of the latest render
  queue,          \* state updates queued for the next render, per state:
                  \* <<>> or <<value>> (the last value set, when it differs
                  \* from the rendered one); for messages the entries to append
  statusSetBy,    \* what queued the call status in queue: <<>> when none is
                  \* queued, else <<the SDK event delivered, "handleCall",
                  \* "catch" or "connectTimeout">>
  listeners,      \* vapi's handler lists: event -> sequence of effect-run ids
  runs,           \* number of runs of the listener effect so far
  calls,          \* handleCall invocations: pc (position), callStatus (the value
                  \* its closure captured, kept while the timeout callback can
                  \* still read it, Unset after), timer (connectTimeout)
  starts,         \* first argument of every vapi.start invocation
  alerts,         \* window.alert calls
  errorLog,       \* console.error("VAPI Error:", ...) calls
  received,       \* final transcript events delivered by the SDK, in order
  feedbackCalls,  \* createFeedback invocations and their state
  redirects,      \* router.push targets
  pendingEffect,  \* the second effect of the latest render when it has not
                  \* run yet: <<callStatus of the render before>>, else <<>>
  stops,          \* number of vapi.stop calls made by handleDisconnect
  renders,        \* Home(): one record per request of the home page
  formType,       \* AuthForm prop: 'sign-in' | 'sign-up' (Unset: no form rendered)
  isLoading,      \* AuthForm useState(false): the value of the latest render
  loadingQueue,   \* AuthForm: the isLoading update queued for the next render
  submits,        \* AuthForm.onSubmit invocations
  plainSubmits    \* components/AuthForm.tsx: onSubmit invocations, with the
                  \* toasts shown and the router.push targets of each

vars == <<type, env, phase, callStatus, messages, isSpeaking, lastMessage, queue,
          statusSetBy, listeners, runs, calls, starts, alerts, errorLog, received,
          feedbackCalls, redirects, pendingEffect, stops, renders, formType,
          isLoading, loadingQueue, submits, plainSubmits>>

\* the session agent's variables
agent == <<type, env, phase, callStatus, messages, isSpeaking, lastMessage, queue,
           statusSetBy, listeners, runs, calls, starts, alerts, errorLog, received,
           feedbackCalls, redirects, pendingEffect, stops>>

authForm == <<formType, isLoading, loadingQueue, submits, plainSubmits>>

\* the other pages' variables
pages == <<renders, authForm>>

\* what the latest render shows
rendered == <<callStatus, messages, isSpeaking, lastMessage>>

agentState == <<rendered, queue, statusSetBy>>

effects == <<feedbackCalls, redirects, pendingEffect>>

sdkSide == <<listeners, runs>>

callSide == <<calls, starts, alerts>>

props == <<type, env>>

Last(s) == s[Len(s)]

\* no update queued
EmptyQueue == [callStatus |-> <<>>, messages |-> <<>>, isSpeaking |-> <<>>, lastMessage |-> <<>>]

AgentInit ==
  /\ type \in AgentTypes
  /\ env \in Environments(type)
  /\ phase = "new"
  /\ callStatus = "INACTIVE"
  /\ messages = <<>>
  /\ isSpeaking = FALSE
  /\ lastMessage = ""
  /\ queue = EmptyQueue
  /\ statusSetBy = <<>>
  /\ listeners = [e \in Events |-> <<>>]
  /\ runs = 0
  /\ calls = <<>>
  /\ starts = <<>>
  /\ alerts = <<>>
  /\ errorLog = 0
  /\ received = <<>>
  /\ feedbackCalls = <<>>
  /\ redirects = <<>>
  /\ pendingEffect = <<>>
  /\ stops = 0

\* the page of the session agent: no home page request, no auth form
Init ==
  /\ AgentInit
  /\ renders = <<>>
  /\ formType = Unset
  /\ isLoading = FALSE
  /\ loadingQueue = <<>>
  /\ submits = <<>>
  /\ plainSubmits = <<>>

\* the value the next render shows for a state: the queued one, else the
\* rendered one
Pending(q, v) == IF q = <<>> THEN v ELSE q[1]

\* runs of the FINISHED branch of the second effect so far
Finishes == IF type = "generate" THEN Len(redirects) ELSE Len(feedbackCalls)

\* runs of the FINISHED branch to come: of the effect that has yet to run,
\* and of the effect of the render that the queued updates will cause
PendingFinish ==
  (IF pendingEffect # <<>> /\ callStatus = "FINISHED" THEN 1 ELSE 0)
  + (IF /\ Pending(queue.callStatus, callStatus) = "FINISHED"
        /\ (queue.callStatus # <<>> \/ queue.messages # <<>>)
       THEN 1 ELSE 0)

Max(a, b) == IF a > b THEN a ELSE b

\* final transcripts delivered, or transcript entries if there are more
Heard == Max(Len(received), Len(messages) + Len(queue.messages))

\* the speaking indicator, shown or queued
Speaking == (IF isSpeaking THEN 1 ELSE 0) + Len(queue.isSpeaking)

Load == runs + Len(calls) + Heard + Speaking + errorLog + Finishes + PendingFinish + stops

Times(n, x) == [i \in 1..n |-> x]

FeedbackPage(id) == "/interview/" \o id \o "/feedback"

\* ---- state setters: React queues the update; it drops the update of an
\* ---- unmounted component

\* a queued value equal to the rendered one changes nothing at the next render
Queued(x, v) == IF x = v THEN <<>> ELSE <<x>>

setCallStatus(q, st) ==
  IF phase = "unmounted" THEN q ELSE [q EXCEPT !.callStatus = Queued(st, callStatus)]

\* setMessages((prev) => [...prev, newMessage]), once per entry of new
setMessages(q, new) ==
  IF phase = "unmounted" THEN q ELSE [q EXCEPT !.messages = @ \o new]

setIsSpeaking(q, b) ==
  IF phase = "unmounted" THEN q ELSE [q EXCEPT !.isSpeaking = Queued(b, isSpeaking)]

\* setLastMessage(s), called by the effect of a render that shows last
setLastMessage(q, s, last) == [q EXCEPT !.lastMessage = Queued(s, last)]

\* the call status as the state setters have left it: what the next render shows
Status == Pending(queue.callStatus, callStatus)

\* by records what queued the call status, when the step queues another one
SetBy(by) ==
  IF queue'.callStatus = queue.callStatus THEN statusSetBy
  ELSE IF queue'.callStatus = <<>> THEN <<>> ELSE <<by>>

\* ---- second useEffect (deps: messages, callStatus, ...) ----

\* Mutant: the effect hands over the transcript without its last entry.
handleGenerateFeedback_Stale(sent, msgs) ==
  Append(sent,
         [interviewId |-> interviewId, userId |-> userId,
          transcript |-> SubSeq(msgs, 1, Len(msgs) - 1), feedbackId |-> feedbackId,
          state |-> "pending", result |-> Unset])

\* createFeedback({interviewId, userId, transcript: messages, feedbackId}),
\* added to the invocations sent
handleGenerateFeedback(sent, msgs) ==
  Append(sent,
         [interviewId |-> interviewId, userId |-> userId,
          transcript |-> msgs, feedbackId |-> feedbackId,
          state |-> "pending", result |-> Unset])

\* what an effect run reads and writes, as it is before the step
Now == [queue |-> queue, feedbackCalls |-> feedbackCalls, redirects |-> redirects]

\* the step leaves what x holds
Apply(x) ==
  /\ queue' = x.queue
  /\ feedbackCalls' = x.feedbackCalls
  /\ redirects' = x.redirects

\* Mutant: the FINISHED branch tests the session type the wrong way round.
FeedbackEffect_TypeSwapped(st, msgs, last, x) ==
  [queue |-> IF Len(msgs) > 0 THEN setLastMessage(x.queue, Last(msgs).content, last) ELSE x.queue,
   redirects |-> IF st = "FINISHED" /\ type # "generate"
                   THEN Append(x.redirects, "/") ELSE x.redirects,
   feedbackCalls |-> IF st = "FINISHED" /\ ~(type # "generate")
                       THEN handleGenerateFeedback(x.feedbackCalls, msgs) ELSE x.feedbackCalls]

\* The effect body for a render that shows status st, transcript msgs and
\* last message last, run on x: setLastMessage for a non-empty transcript;
\* when FINISHED, router.push("/") for generate, else handleGenerateFeedback.
FeedbackEffect(st, msgs, last, x) ==
  [queue |-> IF Len(msgs) > 0 THEN setLastMessage(x.queue, Last(msgs).content, last) ELSE x.queue,
   redirects |-> IF st = "FINISHED" /\ type = "generate"
                   THEN Append(x.redirects, "/") ELSE x.redirects,
   feedbackCalls |-> IF st = "FINISHED" /\ ~(type = "generate")
                       THEN handleGenerateFeedback(x.feedbackCalls, msgs) ELSE x.feedbackCalls]

\* React commits a render that shows st, msgs and last
Commit(st, msgs, last) ==
  /\ callStatus' = st
  /\ messages' = msgs
  /\ lastMessage' = last

\* a dependency of the second effect differs from the render before
DepsChanged(st, msgs) == st # callStatus \/ msgs # messages

\* a render that applies every queued update, with st for the call status
RenderAll(st) ==
  /\ isSpeaking' = Pending(queue.isSpeaking, isSpeaking)
  /\ Commit(st, messages \o queue.messages, Pending(queue.lastMessage, lastMessage))

\* the render React has scheduled for the queued updates, once the effect of
\* the render before has run; its own effect is left for a later task
Render ==
  /\ phase = "mounted"
  /\ queue # EmptyQueue
  /\ pendingEffect = <<>>
  /\ RenderAll(Status)
  /\ queue' = EmptyQueue
  /\ statusSetBy' = <<>>
  /\ pendingEffect' = IF DepsChanged(Status, messages \o queue.messages) THEN <<callStatus>> ELSE <<>>
  /\ UNCHANGED <<props, pages, stops, phase, sdkSide, callSide, errorLog, received,
                 feedbackCalls, redirects>>

\* the effect of the latest render when it has yet to run, run on Now
Flushed ==
  IF pendingEffect # <<>> THEN FeedbackEffect(callStatus, messages, lastMessage, Now) ELSE Now

\* the second effect of the latest render runs
Effect ==
  /\ pendingEffect # <<>>
  /\ Apply(Flushed)
  /\ pendingEffect' = <<>>
  /\ UNCHANGED <<props, pages, stops, phase, rendered, statusSetBy, sdkSide, callSide,
                 errorLog, received>>

\* The render of a click, in the click's task: the handler has called
\* setDebugLogs and has set the call status to st (Unset: it has not).  React
\* first runs the effect that has yet to run, then renders the handler's
\* updates, together with the updates queued before (batched) or ahead of
\* them, and runs the effect of that render.
ClickRender(st, batched) ==
  LET x == Flushed
      status == IF st # Unset THEN st
                ELSE IF batched THEN Pending(x.queue.callStatus, callStatus) ELSE callStatus
      msgs == IF batched THEN messages \o x.queue.messages ELSE messages
      last == IF batched THEN Pending(x.queue.lastMessage, lastMessage) ELSE lastMessage
      rest == IF batched THEN EmptyQueue
              ELSE IF st # Unset THEN [x.queue EXCEPT !.callStatus = <<>>] ELSE x.queue
      y == [x EXCEPT !.queue = rest]
  IN  /\ isSpeaking' = IF batched THEN Pending(x.queue.isSpeaking, isSpeaking) ELSE isSpeaking
      /\ Commit(status, msgs, last)
      /\ Apply(IF DepsChanged(status, msgs) THEN FeedbackEffect(status, msgs, last, y) ELSE y)
      /\ statusSetBy' = IF rest.callStatus = <<>> THEN <<>> ELSE statusSetBy
      /\ pendingEffect' = <<>>

\* ---- first useEffect: listener registration and cleanup ----

\* vapi.on(event, handler) for the six events, handlers of effect run r
Register(ls, r) == [e \in Events |-> Append(ls[e], r)]

RemoveOne(s, r) ==
  IF \E i \in 1..Len(s) : s[i] = r
    THEN LET i == CHOOSE j \in 1..Len(s) : s[j] = r /\ \A k \in 1..(j-1) : s[k] # r
         IN  SubSeq(s, 1, i-1) \o SubSeq(s, i+1, Len(s))
    ELSE s

\* Mutant: the cleanup forgets vapi.off("error", onError).
Cleanup_NoErrorOff(ls, r) ==
  [e \in Events |-> IF e = "error" THEN ls[e] ELSE RemoveOne(ls[e], r)]

\* the cleanup returned by effect run r: vapi.off(event, handler) for the six
Cleanup(ls, r) == [e \in Events |-> RemoveOne(ls[e], r)]

Mount ==
  /\ phase = "new"
  /\ phase' = "mounted"
  /\ runs' = runs + 1
  /\ listeners' = Register(listeners, runs + 1)
  /\ UNCHANGED <<props, pages, stops, agentState, effects, callSide, errorLog, received>>

\* a dependency of the listener effect changed (questions is a fresh array):
\* the previous run's cleanup, then the effect again
Rerun ==
  /\ phase = "mounted"
  /\ pendingEffect = <<>>
  /\ runs' = runs + 1
  /\ listeners' = Register(Cleanup(listeners, runs), runs + 1)
  /\ UNCHANGED <<props, pages, stops, phase, agentState, effects, callSide, errorLog, received>>
  /\ Load' <= MaxLoad

\* React commits the removal of the component: the queued updates are never
\* rendered; the handlers stay registered until the cleanup runs
Unmount ==
  /\ phase = "mounted"
  /\ pendingEffect = <<>>
  /\ phase' = "unmounted"
  /\ queue' = EmptyQueue
  /\ statusSetBy' = <<>>
  /\ UNCHANGED <<props, pages, stops, sdkSide, rendered, effects, callSide, errorLog, received>>

\* the cleanup of the listener effect, in a task after the removal
UnmountCleanup ==
  /\ phase = "unmounted"
  /\ listeners # Cleanup(listeners, runs)
  /\ listeners' = Cleanup(listeners, runs)
  /\ UNCHANGED <<props, pages, stops, phase, runs, agentState, effects, callSide, errorLog, received>>

\* ---- SDK events, delivered to every handler registered for the event ----

Handlers(e) == Len(listeners[e])

\* Mutant: the call-start handler sets CONNECTING.
onCallStart_Connecting ==
  /\ Handlers("call-start") > 0
  /\ queue' = setCallStatus(queue, "CONNECTING")
  /\ statusSetBy' = SetBy("call-start")
  /\ UNCHANGED <<props, pages, stops, phase, rendered, effects, sdkSide, callSide, errorLog, received>>

onCallStart ==
  /\ Handlers("call-start") > 0
  /\ queue' = setCallStatus(queue, "ACTIVE")
  /\ statusSetBy' = SetBy("call-start")
  /\ UNCHANGED <<props, pages, stops, phase, rendered, effects, sdkSide, callSide, errorLog, received>>

onCallEnd ==
  /\ Handlers("call-end") > 0
  /\ queue' = setCallStatus(queue, "FINISHED")
  /\ statusSetBy' = SetBy("call-end")
  /\ UNCHANGED <<props, pages, stops, phase, rendered, effects, sdkSide, callSide, errorLog, received>>
  /\ Load' <= MaxLoad

\* { role: message.role, content: message.transcript }
newMessage(m) == [role |-> m.role, content |-> m.transcript]

IsFinalTranscript(m) == m.type = "transcript" /\ m.transcriptType = "final"

\* Mutant: the handler tests message.type only and keeps partial transcripts.
onMessage_AnyTranscript(m) ==
  /\ Handlers("message") > 0
  /\ received' = IF IsFinalTranscript(m) THEN Append(received, m) ELSE received
  /\ queue' = IF m.type = "transcript"
                THEN setMessages(queue, Times(Handlers("message"), newMessage(m)))
                ELSE queue
  /\ UNCHANGED <<props, pages, stops, phase, rendered, statusSetBy, effects, sdkSide, callSide,
                 errorLog>>
  /\ Load' <= MaxLoad

onMessage(m) ==
  /\ Handlers("message") > 0
  /\ received' = IF IsFinalTranscript(m) THEN Append(received, m) ELSE received
  /\ queue' = IF IsFinalTranscript(m)
                THEN setMessages(queue, Times(Handlers("message"), newMessage(m)))
                ELSE queue
  /\ UNCHANGED <<props, pages, stops, phase, rendered, statusSetBy, effects, sdkSide, callSide,
                 errorLog>>
  /\ Load' <= MaxLoad

onSpeechStart ==
  /\ Handlers("speech-start") > 0
  /\ queue' = setIsSpeaking(queue, TRUE)
  /\ UNCHANGED <<props, pages, stops, phase, rendered, statusSetBy, effects, sdkSide, callSide, errorLog, received>>
  /\ Load' <= MaxLoad

onSpeechEnd ==
  /\ Handlers("speech-end") > 0
  /\ queue' = setIsSpeaking(queue, FALSE)
  /\ UNCHANGED <<props, pages, stops, phase, rendered, statusSetBy, effects, sdkSide, callSide, errorLog, received>>
  /\ Load' <= MaxLoad

onError ==
  /\ Handlers("error") > 0
  /\ errorLog' = errorLog + Handlers("error")
  /\ UNCHANGED <<props, pages, stops, phase, agentState, effects, sdkSide, callSide, received>>
  /\ Load' <= MaxLoad

\* ---- handleCall ----

\* The Call button is rendered unless the rendered status is ACTIVE.  The
\* click starts an invocation whose closure holds the callStatus of that
\* render; it calls addDebugLog and awaits getUserMedia, and React renders in
\* the click's task.
handleCall ==
  /\ phase = "mounted"
  /\ callStatus # "ACTIVE"
  /\ calls' = Append(calls, [pc |-> "mic", callStatus |-> callStatus, timer |-> "none"])
  /\ \E batched \in BOOLEAN : ClickRender(Unset, batched)
  /\ UNCHANGED <<props, pages, stops, phase, sdkSide, starts, alerts, errorLog, received>>
  /\ Load' <= MaxLoad

\* Mutant: setCallStatus(CONNECTING) is made before the microphone check.
MicDenied_AfterConnecting(i) ==
  /\ calls[i].pc = "mic"
  /\ calls' = [calls EXCEPT ![i].pc = "denied", ![i].callStatus = Unset]
  /\ alerts' = Append(alerts, "Microphone access is required")
  /\ queue' = setCallStatus(queue, "CONNECTING")
  /\ statusSetBy' = SetBy("handleCall")
  /\ UNCHANGED <<props, pages, stops, phase, rendered, effects, sdkSide, starts, errorLog, received>>

\* getUserMedia rejected: alert and return
MicDenied(i) ==
  /\ calls[i].pc = "mic"
  /\ calls' = [calls EXCEPT ![i].pc = "denied", ![i].callStatus = Unset]
  /\ alerts' = Append(alerts, "Microphone access is required")
  /\ UNCHANGED <<props, pages, stops, phase, agentState, effects, sdkSide, starts, errorLog, received>>

\* the identifier handed to vapi.start
StartTarget ==
  IF type = "generate" THEN env.NEXT_PUBLIC_VAPI_ASSISTANT_ID ELSE env.interviewer

\* the configuration check made before vapi.start
ConfigMissing ==
  IF type = "generate"
    THEN env.NEXT_PUBLIC_VAPI_WORKFLOW_ID = Unset
    ELSE env.interviewer = Unset

\* clearTimeout(connectTimeout)
ClearTimer(t) == IF t = "armed" THEN "cleared" ELSE t

\* getUserMedia resolved: setCallStatus(CONNECTING), setTimeout, then either
\* the configuration error is thrown and caught in the same task, or
\* vapi.start is invoked and awaited.
MicGranted(i) ==
  /\ calls[i].pc = "mic"
  /\ IF ConfigMissing
       THEN /\ calls' = [calls EXCEPT ![i].pc = "failed", ![i].timer = ClearTimer("armed"),
                                  ![i].callStatus = Unset]
            /\ queue' = setCallStatus(setCallStatus(queue, "CONNECTING"), "INACTIVE")
            /\ statusSetBy' = SetBy("catch")
            /\ alerts' = Append(alerts, "Failed to start call")
            /\ UNCHANGED starts
       ELSE /\ calls' = [calls EXCEPT ![i].pc = "starting", ![i].timer = "armed"]
            /\ queue' = setCallStatus(queue, "CONNECTING")
            /\ statusSetBy' = SetBy("handleCall")
            /\ starts' = Append(starts, StartTarget)
            /\ UNCHANGED alerts
  /\ UNCHANGED <<props, pages, stops, phase, rendered, effects, sdkSide, errorLog, received>>
  /\ Load' <= MaxLoad

\* What the catch block of handleCall may be handed: a value it logs in
\* full, a value JSON.stringify cannot serialise (it throws while logging,
\* before the reset), an Error whose name, message or stack cannot be read
\* (it throws after the reset, before the alert).
CaughtValues == {"logged", "unserialisable", "unreadable"}

\* the catch block of handleCall: clearTimeout, the logging with
\* JSON.stringify(error), setCallStatus(INACTIVE), the logging of the
\* Error's details, the alert
Catch(i, caught) ==
  CASE caught = "logged" ->
         /\ calls' = [calls EXCEPT ![i].pc = "failed", ![i].timer = ClearTimer(calls[i].timer),
                                  ![i].callStatus = Unset]
         /\ queue' = setCallStatus(queue, "INACTIVE")
         /\ statusSetBy' = SetBy("catch")
         /\ alerts' = Append(alerts, "Failed to start call")
    [] caught = "unserialisable" ->
         /\ calls' = [calls EXCEPT ![i].pc = "escaped", ![i].timer = ClearTimer(calls[i].timer),
                                  ![i].callStatus = Unset]
         /\ UNCHANGED <<queue, statusSetBy, alerts>>
    [] caught = "unreadable" ->
         /\ calls' = [calls EXCEPT ![i].pc = "escaped", ![i].timer = ClearTimer(calls[i].timer),
                                  ![i].callStatus = Unset]
         /\ queue' = setCallStatus(queue, "INACTIVE")
         /\ statusSetBy' = SetBy("catch")
         /\ UNCHANGED alerts

\* vapi.start resolved: JSON.stringify(result) for the log, then
\* clearTimeout; a result that cannot be serialised throws a TypeError into
\* the catch block
StartResolved(i, serialisable) ==
  /\ calls[i].pc = "starting"
  /\ IF serialisable
       THEN /\ calls' = [calls EXCEPT ![i].pc = "started", ![i].timer = ClearTimer(calls[i].timer),
                                  ![i].callStatus = Unset]
            /\ UNCHANGED <<queue, statusSetBy, alerts>>
       ELSE Catch(i, "logged")
  /\ UNCHANGED <<props, pages, stops, phase, rendered, effects, sdkSide, starts, errorLog, received>>

\* vapi.start rejected
StartRejected(i, caught) ==
  /\ calls[i].pc = "starting"
  /\ Catch(i, caught)
  /\ UNCHANGED <<props, pages, stops, phase, rendered, effects, sdkSide, starts, errorLog, received>>

\* the setTimeout callback: it tests the callStatus of its closure
connectTimeout(i) ==
  /\ calls[i].timer = "armed"
  /\ calls' = [calls EXCEPT ![i].timer = "fired", ![i].callStatus = Unset]
  /\ queue' = IF calls[i].callStatus = "CONNECTING" THEN setCallStatus(queue, "INACTIVE") ELSE queue
  /\ statusSetBy' = SetBy("connectTimeout")
  /\ UNCHANGED <<props, pages, stops, phase, rendered, effects, sdkSide, starts, alerts, errorLog, received>>

\* ---- handleDisconnect: the End button is rendered when ACTIVE ----

\* Mutant: setCallStatus(FINISHED) follows vapi.stop() inside the try block.
handleDisconnect_SetAfterStop ==
  /\ phase = "mounted"
  /\ callStatus = "ACTIVE"
  /\ \E outcome \in {"returned", "threw"} :
       /\ stops' = stops + 1
       /\ \E batched \in BOOLEAN :
            ClickRender(IF outcome = "returned" THEN "FINISHED" ELSE Unset, batched)
  /\ UNCHANGED <<props, pages, phase, sdkSide, callSide, errorLog, received>>
  /\ Load' <= MaxLoad

\* addDebugLog, setCallStatus(FINISHED), then vapi.stop() in a try block
\* whose catch logs; React renders FINISHED in the click's task
handleDisconnect ==
  /\ phase = "mounted"
  /\ callStatus = "ACTIVE"
  /\ \E outcome \in {"returned", "threw"} : stops' = stops + 1
  /\ \E batched \in BOOLEAN : ClickRender("FINISHED", batched)
  /\ UNCHANGED <<props, pages, phase, sdkSide, callSide, errorLog, received>>
  /\ Load' <= MaxLoad

\* ---- createFeedback settles: the rest of handleGenerateFeedback ----
\* Mutant: the redirect tests success only.
RedirectFor_SuccessOnly(r) ==
  IF ~r.thrown /\ r.success THEN FeedbackPage(interviewId) ELSE "/"

RedirectFor(r) ==
  IF ~r.thrown /\ r.success /\ r.feedbackId # "" /\ r.feedbackId # Unset
    THEN FeedbackPage(interviewId)
    ELSE "/"

FeedbackSettled(k, r) ==
  /\ feedbackCalls[k].state = "pending"
  /\ feedbackCalls' = [feedbackCalls EXCEPT ![k].state = "settled", ![k].result = r]
  /\ redirects' = Append(redirects, RedirectFor(r))
  /\ UNCHANGED <<props, pages, stops, phase, agentState, pendingEffect, sdkSide, callSide,
                 errorLog, received>>

Next ==
  \/ Mount
  \/ Rerun
  \/ Unmount
  \/ UnmountCleanup
  \/ Render
  \/ Effect
  \/ onCallStart
  \/ onCallEnd
  \/ \E m \in Message : onMessage(m)
  \/ onSpeechStart
  \/ onSpeechEnd
  \/ onError
  \/ handleCall
  \/ \E i \in 1..Len(calls) : MicDenied(i)
  \/ \E i \in 1..Len(calls) : MicGranted(i)
  \/ \E i \in 1..Len(calls) : \E serialisable \in BOOLEAN : StartResolved(i, serialisable)
  \/ \E i \in 1..Len(calls) : \E caught \in CaughtValues : StartRejected(i, caught)
  \/ \E i \in 1..Len(calls) : connectTimeout(i)
  \/ handleDisconnect
  \/ \E k \in 1..Len(feedbackCalls) : \E r \in FeedbackResults : FeedbackSettled(k, r)

Spec == Init /\ [][Next]_vars

\* React does render the updates it has queued and does run the effect of a
\* render
SpecLive == Spec /\ WF_vars(Render) /\ WF_vars(Effect)

TypeOK ==
  /\ type \in AgentTypes
  /\ callStatus \in CallStatus
  /\ phase \in {"new", "mounted", "unmounted"}
  /\ isSpeaking \in BOOLEAN
  /\ Len(queue.callStatus) <= 1 /\ Len(queue.isSpeaking) <= 1 /\ Len(queue.lastMessage) <= 1
  /\ Len(statusSetBy) = Len(queue.callStatus)
  /\ phase # "mounted" => queue = EmptyQueue /\ pendingEffect = <<>>
  /\ pendingEffect = <<>> \/ (Len(pendingEffect) = 1 /\ pendingEffect[1] \in CallStatus)
  /\ \A i \in 1..Len(calls) :
       /\ calls[i].pc \in {"mic", "denied", "starting", "started", "failed", "escaped"}
       /\ calls[i].callStatus \in (CallStatus \ {"ACTIVE"}) \cup {Unset}
       /\ calls[i].timer \in {"none", "armed", "fired", "cleared"}
  /\ Load <= MaxLoad

\* ======================= Home (the home page) =======================

\* What getCurrentUser may resolve to: null, or a user whose id is missing,
\* empty or set.
Users ==
  {[present |-> FALSE, id |-> Unset],
   [present |-> TRUE, id |-> Unset],
   [present |-> TRUE, id |-> ""],
   [present |-> TRUE, id |-> "user-1"],
   [present |-> TRUE, id |-> "user-2"]}

\* What the two interview queries may resolve to: null, [] or a list.
InterviewLists == {"null", "empty", "some"}

\* !user?.id
NoUserId(u) == ~u.present \/ u.id \in {Unset, ""}

\* a request of the page: Home() runs up to await getCurrentUser()
Home ==
  /\ Len(renders) < MaxRenders
  /\ renders' = Append(renders,
                       [pc |-> "getCurrentUser", user |-> [present |-> FALSE, id |-> Unset],
                        getInterviewsByUserId |-> <<>>, getLatestInterviews |-> <<>>,
                        hasPastInterviews |-> FALSE, hasUpcomingInterviews |-> FALSE])
  /\ UNCHANGED <<agent, authForm>>

\* Mutant: the guard tests !user only.
UserResolved_NoIdCheck(i, u) ==
  /\ renders[i].pc = "getCurrentUser"
  /\ IF ~u.present
       THEN renders' = [renders EXCEPT ![i].pc = "login-prompt", ![i].user = u]
       ELSE renders' = [renders EXCEPT ![i].pc = "Promise.all", ![i].user = u,
                                       ![i].getInterviewsByUserId = <<u.id>>,
                                       ![i].getLatestInterviews = <<[userId |-> u.id]>>]
  /\ UNCHANGED <<agent, authForm>>

\* getCurrentUser resolved: the login prompt is returned, or both queries
\* are called with user.id and awaited together
UserResolved(i, u) ==
  /\ renders[i].pc = "getCurrentUser"
  /\ IF NoUserId(u)
       THEN renders' = [renders EXCEPT ![i].pc = "login-prompt", ![i].user = u]
       ELSE renders' = [renders EXCEPT ![i].pc = "Promise.all", ![i].user = u,
                                       ![i].getInterviewsByUserId = <<u.id>>,
                                       ![i].getLatestInterviews = <<[userId |-> u.id]>>]
  /\ UNCHANGED <<agent, authForm>>

\* list && list.length > 0
HasInterviews(list) == list = "some"

\* Promise.all resolved: the page is rendered
InterviewsResolved(i, userInterviews, allInterview) ==
  /\ renders[i].pc = "Promise.all"
  /\ renders' = [renders EXCEPT ![i].pc = "page",
                                ![i].hasPastInterviews = HasInterviews(userInterviews),
                                ![i].hasUpcomingInterviews = HasInterviews(allInterview)]
  /\ UNCHANGED <<agent, authForm>>

HomeNext ==
  \/ Home
  \/ \E i \in 1..Len(renders) : \E u \in Users : UserResolved(i, u)
  \/ \E i \in 1..Len(renders) : \E a, b \in InterviewLists : InterviewsResolved(i, a, b)

SpecHome == Init /\ [][HomeNext]_vars

\* ======================= AuthForm =======================

FormTypes == {"sign-in", "sign-up"}

\* error.code of the error an await throws (Unset: no code)
AuthErrorCodes ==
  {"auth/email-already-in-use", "auth/weak-password", "auth/user-not-found",
   "auth/wrong-password", "auth/invalid-email", Unset}

\* createUserWithEmailAndPassword / signInWithEmailAndPassword settle
FirebaseOutcomes ==
  {[thrown |-> FALSE, code |-> Unset]} \cup {[thrown |-> TRUE, code |-> c] : c \in AuthErrorCodes}

\* userCredential.user.getIdToken() settles
TokenOutcomes ==
  {[thrown |-> FALSE, idToken |-> "id-token-1", code |-> Unset],
   [thrown |-> FALSE, idToken |-> "", code |-> Unset]}
    \cup {[thrown |-> TRUE, idToken |-> Unset, code |-> c] : c \in AuthErrorCodes}

\* the backend actions signUp / signIn settle
ActionOutcomes ==
  {[thrown |-> FALSE, success |-> TRUE, message |-> "ok", code |-> Unset],
   [thrown |-> FALSE, success |-> FALSE, message |-> "rejected by the backend", code |-> Unset]}
    \cup {[thrown |-> TRUE, success |-> FALSE, message |-> Unset, code |-> c] : c \in AuthErrorCodes}

\* the catch block's choice of message
ErrorMessage(code) ==
  CASE code = "auth/email-already-in-use" ->
         "This email is already registered. Please sign in instead."
    [] code = "auth/weak-password" -> "Password is too weak. Please use a stronger password."
    [] code = "auth/user-not-found" -> "No account found with this email address."
    [] code = "auth/wrong-password" -> "Incorrect password. Please try again."
    [] code = "auth/invalid-email" -> "Please enter a valid email address."
    [] OTHER -> "An unexpected error occurred. Please try again."

\* catch (error): toast.error(errorMessage), then the submission is over
Caught(sub, code) ==
  [sub EXCEPT !.pc = "returned", !.threw = TRUE,
              !.toasts = Append(@, [kind |-> "error", message |-> ErrorMessage(code)])]

InitAuth ==
  /\ AgentInit
  /\ renders = <<>>
  /\ formType \in FormTypes
  /\ isLoading = FALSE
  /\ loadingQueue = <<>>
  /\ submits = <<>>
  /\ plainSubmits = <<>>

\* setIsLoading(b) in the continuation of an await: queued for the next render
setIsLoading(b) == Queued(b, isLoading)

\* the isLoading state as the setter has left it: what the next render shows
Loading == Pending(loadingQueue, isLoading)

\* the render React has scheduled for the queued update
RenderAuthForm ==
  /\ loadingQueue # <<>>
  /\ isLoading' = loadingQueue[1]
  /\ loadingQueue' = <<>>
  /\ UNCHANGED <<agent, renders, plainSubmits, formType, submits>>

\* The submit button of the latest render is disabled while isLoading.
\* form.handleSubmit validates, then calls onSubmit: setIsLoading(true),
\* then the first await of the branch.
onSubmit ==
  /\ formType \in FormTypes
  /\ ~isLoading
  /\ Len(submits) < MaxSubmits
  /\ loadingQueue' = setIsLoading(TRUE)
  /\ submits' = Append(submits,
                       [pc |-> IF formType = "sign-up"
                                 THEN "createUserWithEmailAndPassword"
                                 ELSE "signInWithEmailAndPassword",
                        created |-> FALSE, result |-> "none", threw |-> FALSE,
                        toasts |-> <<>>, pushed |-> <<>>])
  /\ UNCHANGED <<agent, renders, plainSubmits, formType, isLoading>>

\* the Firebase call of either branch settles
FirebaseSettled(i, o) ==
  /\ submits[i].pc \in {"createUserWithEmailAndPassword", "signInWithEmailAndPassword"}
  /\ IF o.thrown
       THEN /\ submits' = [submits EXCEPT ![i] = Caught(@, o.code)]
            /\ loadingQueue' = setIsLoading(FALSE)
       ELSE /\ submits' = [submits EXCEPT ![i].created = TRUE,
                                          ![i].pc = IF formType = "sign-up" THEN "signUp" ELSE "getIdToken"]
            /\ UNCHANGED loadingQueue
  /\ UNCHANGED <<agent, renders, plainSubmits, formType, isLoading>>

ResultOf(o) == IF o.success THEN "success" ELSE "failure"

\* Mutant: setIsLoading(false) is the last statement of the try block, not a
\* finally block.
SignUpSettled_NoFinally(i, o) ==
  /\ submits[i].pc = "signUp"
  /\ IF o.thrown
       THEN /\ submits' = [submits EXCEPT ![i] = Caught(@, o.code)]
            /\ loadingQueue' = setIsLoading(FALSE)
       ELSE IF ~o.success
         THEN /\ submits' = [submits EXCEPT ![i].pc = "returned", ![i].result = ResultOf(o),
                               ![i].toasts = Append(@, [kind |-> "error", message |-> o.message])]
              /\ UNCHANGED loadingQueue
         ELSE /\ submits' = [submits EXCEPT ![i].pc = "returned", ![i].result = ResultOf(o),
                               ![i].toasts = Append(@, [kind |-> "success",
                                 message |-> "Account created successfully! Please sign in."]),
                               ![i].pushed = Append(@, "/sign-in")]
              /\ loadingQueue' = setIsLoading(FALSE)
  /\ UNCHANGED <<agent, renders, plainSubmits, formType, isLoading>>

\* Mutant: the return after toast.error(result.message) is missing.
SignUpSettled_NoReturn(i, o) ==
  /\ submits[i].pc = "signUp"
  /\ IF o.thrown
       THEN submits' = [submits EXCEPT ![i] = Caught(@, o.code)]
       ELSE IF ~o.success
         THEN submits' = [submits EXCEPT ![i].pc = "returned", ![i].result = ResultOf(o),
                            ![i].toasts = @ \o <<[kind |-> "error", message |-> o.message],
                                                 [kind |-> "success",
                                                  message |-> "Account created successfully! Please sign in."]>>,
                            ![i].pushed = Append(@, "/sign-in")]
         ELSE submits' = [submits EXCEPT ![i].pc = "returned", ![i].result = ResultOf(o),
                            ![i].toasts = Append(@, [kind |-> "success",
                              message |-> "Account created successfully! Please sign in."]),
                            ![i].pushed = Append(@, "/sign-in")]
  /\ loadingQueue' = setIsLoading(FALSE)
  /\ UNCHANGED <<agent, renders, plainSubmits, formType, isLoading>>

\* signUp settles: the error toast and return, or the success toast and the
\* redirect to /sign-in; finally setIsLoading(false)
SignUpSettled(i, o) ==
  /\ submits[i].pc = "signUp"
  /\ IF o.thrown
       THEN submits' = [submits EXCEPT ![i] = Caught(@, o.code)]
       ELSE IF ~o.success
         THEN submits' = [submits EXCEPT ![i].pc = "returned", ![i].result = ResultOf(o),
                            ![i].toasts = Append(@, [kind |-> "error", message |-> o.message])]
         ELSE submits' = [submits EXCEPT ![i].pc = "returned", ![i].result = ResultOf(o),
                            ![i].toasts = Append(@, [kind |-> "success",
                              message |-> "Account created successfully! Please sign in."]),
                            ![i].pushed = Append(@, "/sign-in")]
  /\ loadingQueue' = setIsLoading(FALSE)
  /\ UNCHANGED <<agent, renders, plainSubmits, formType, isLoading>>

\* getIdToken settles: without a token the error toast and return
IdTokenSettled(i, o) ==
  /\ submits[i].pc = "getIdToken"
  /\ IF o.thrown
       THEN /\ submits' = [submits EXCEPT ![i] = Caught(@, o.code)]
            /\ loadingQueue' = setIsLoading(FALSE)
       ELSE IF o.idToken = ""
         THEN /\ submits' = [submits EXCEPT ![i].pc = "returned",
                               ![i].toasts = Append(@, [kind |-> "error",
                                 message |-> "Sign in failed. Please try again."])]
              /\ loadingQueue' = setIsLoading(FALSE)
         ELSE /\ submits' = [submits EXCEPT ![i].pc = "signIn"]
              /\ UNCHANGED loadingQueue
  /\ UNCHANGED <<agent, renders, plainSubmits, formType, isLoading>>

\* signIn settles: its result is not read; the success toast and the
\* redirect to "/" follow unless it threw; finally setIsLoading(false)
SignInSettled(i, o) ==
  /\ submits[i].pc = "signIn"
  /\ IF o.thrown
       THEN submits' = [submits EXCEPT ![i] = Caught(@, o.code)]
       ELSE submits' = [submits EXCEPT ![i].pc = "returned", ![i].result = ResultOf(o),
                          ![i].toasts = Append(@, [kind |-> "success", message |-> "Welcome back!"]),
                          ![i].pushed = Append(@, "/")]
  /\ loadingQueue' = setIsLoading(FALSE)
  /\ UNCHANGED <<agent, renders, plainSubmits, formType, isLoading>>

\* ---- the auth form of components/AuthForm.tsx ----

\* where the try block of its onSubmit may throw
ThrowPoints == {"none", "toast.success", "router.push"}

\* a success toast
Success(message) == [kind |-> "success", message |-> message]

\* catch (error): toast.error(`There was an error: ${error}`)
ErrorToast == [kind |-> "error", message |-> "There was an error: Error"]

\* onSubmit of components/AuthForm.tsx, called by form.handleSubmit with
\* valid data: the success toast and router.push of the form type in the
\* submit task, with no Firebase or backend call and no loading state; a
\* throw of either call is caught and shown as an error toast.
onSubmitPlain(thrown) ==
  /\ formType \in FormTypes
  /\ Len(plainSubmits) < MaxSubmits
  /\ LET message == IF formType = "sign-up"
                       THEN "Account created successfully. Please sign in."
                       ELSE "Signed in successfully."
         target == IF formType = "sign-up" THEN "/sign-in" ELSE "/"
     IN  plainSubmits' = Append(plainSubmits,
           CASE thrown = "none" -> [toasts |-> <<Success(message)>>, pushed |-> <<target>>]
             [] thrown = "toast.success" -> [toasts |-> <<ErrorToast>>, pushed |-> <<>>]
             [] thrown = "router.push" ->
                  [toasts |-> <<Success(message), ErrorToast>>, pushed |-> <<>>])
  /\ UNCHANGED <<agent, renders, formType, isLoading, loadingQueue, submits>>

AuthNext ==
  \/ RenderAuthForm
  \/ onSubmit
  \/ \E i \in 1..Len(submits) : \E o \in FirebaseOutcomes : FirebaseSettled(i, o)
  \/ \E i \in 1..Len(submits) : \E o \in ActionOutcomes : SignUpSettled(i, o)
  \/ \E i \in 1..Len(submits) : \E o \in TokenOutcomes : IdTokenSettled(i, o)
  \/ \E i \in 1..Len(submits) : \E o \in ActionOutcomes : SignInSettled(i, o)
  \/ \E thrown \in ThrowPoints : onSubmitPlain(thrown)

SpecAuth == InitAuth /\ [][AuthNext]_vars

\* ======================= claims =======================

Forward == {<<"INACTIVE", "CONNECTING">>, <<"CONNECTING", "ACTIVE">>, <<"ACTIVE", "FINISHED">>}

\* C1 (as stated): the call status starts at INACTIVE and every change of the
\* status shown is one step forward along
\* INACTIVE -> CONNECTING -> ACTIVE -> FINISHED.
C1_ForwardOnly ==
  /\ callStatus = "INACTIVE"
  /\ [][callStatus' # callStatus => <<callStatus, callStatus'>> \in Forward]_vars

\* an invocation of handleCall passes the microphone check and calls vapi.start
PassesMicCheck == \E i \in 1..Len(calls) : calls[i].pc = "mic" /\ calls'[i].pc = "starting"

\* an invocation of handleCall ends in its catch block
StartFails ==
  \E i \in 1..Len(calls) : calls[i].pc \in {"mic", "starting"} /\ calls'[i].pc \in {"failed", "escaped"}

\* a connect timer whose closure saw CONNECTING fires
TimerResets ==
  \E i \in 1..Len(calls) :
    calls[i].timer = "armed" /\ calls[i].callStatus = "CONNECTING" /\ calls'[i].timer = "fired"

\* the step is the delivery of SDK event e to its registered handler, which
\* queues a call status: nothing of handleCall moves and nothing is rendered
SdkEvent(e) ==
  /\ Handlers(e) > 0
  /\ statusSetBy' = <<e>>
  /\ calls' = calls
  /\ rendered' = rendered

\* the step is a click on the End button, rendered while ACTIVE
Disconnects == callStatus = "ACTIVE" /\ phase = "mounted" /\ stops' = stops + 1

\* C1 (amended): the call status starts at INACTIVE; a render shows a new
\* status only if it is the one queued or FINISHED by handleDisconnect from
\* ACTIVE; and a step leaves the status set to CONNECTING only when a
\* handleCall invocation passes the microphone check, to ACTIVE only when it
\* delivers a call-start event, to FINISHED only when it delivers a call-end
\* event or by handleDisconnect, and back to INACTIVE only when a start
\* fails or a connect timer that saw CONNECTING fires.
C1_StatusChanges ==
  /\ callStatus = "INACTIVE" /\ queue.callStatus = <<>>
  /\ [][/\ callStatus' # callStatus =>
             \/ queue.callStatus = <<callStatus'>>
             \/ Disconnects /\ callStatus' = "FINISHED"
        /\ (queue'.callStatus # <<>> /\ queue'.callStatus # queue.callStatus) =>
             CASE queue'.callStatus[1] = "CONNECTING" ->
                    PassesMicCheck /\ statusSetBy' = <<"handleCall">>
               [] queue'.callStatus[1] = "ACTIVE" -> SdkEvent("call-start")
               [] queue'.callStatus[1] = "FINISHED" -> SdkEvent("call-end")
               [] queue'.callStatus[1] = "INACTIVE" ->
                    \/ StartFails /\ statusSetBy' = <<"catch">>
                    \/ TimerResets /\ statusSetBy' = <<"connectTimeout">>]_vars

\* C1 witness: a failed start has taken a call that was connecting back to
\* INACTIVE after an earlier call had finished.
C1_Witness ==
  /\ callStatus = "INACTIVE"
  /\ Len(calls) = 1 /\ calls[1].pc = "failed"
  /\ Len(starts) = 1
  /\ Finishes = 1

\* the transcript entries of a sequence of final transcript events
Transcript(evts) == [k \in 1..Len(evts) |-> [role |-> evts[k].role, content |-> evts[k].transcript]]

\* C2: the transcript, rendered entries followed by the queued ones, is the
\* sequence of {role, content} entries of the final transcript events
\* delivered so far, in arrival order, and what a render shows is always a
\* prefix of it; nothing else adds, removes or reorders an entry.
C2_TranscriptAppendOnly ==
  /\ phase # "unmounted" => messages \o queue.messages = Transcript(received)
  /\ \E n \in 0..Len(received) : messages = SubSeq(Transcript(received), 1, n)

\* C2 witness: two final transcripts arrived, assistant first, and the call
\* has since finished.
C2_Witness ==
  /\ Len(messages) = 2
  /\ messages[1] = [role |-> "assistant", content |-> "b"]
  /\ messages[2] = [role |-> "user", content |-> "a"]
  /\ callStatus = "FINISHED"

\* the latest createFeedback invocation carries the session's ids and
\* transcript t
SentWith(t) ==
  /\ Len(feedbackCalls) > 0
  /\ Last(feedbackCalls).interviewId = interviewId
  /\ Last(feedbackCalls).userId = userId
  /\ Last(feedbackCalls).feedbackId = feedbackId
  /\ Last(feedbackCalls).transcript = t

\* the status of a mounted interview agent has been set to FINISHED
FinishPending == type = "interview" /\ phase = "mounted" /\ Status = "FINISHED"

\* FINISHED is shown, nothing of the status or the transcript waits for a
\* render or an effect, and createFeedback has been invoked with every final
\* transcript received
FeedbackSent ==
  /\ callStatus = "FINISHED"
  /\ pendingEffect = <<>>
  /\ queue.callStatus = <<>> /\ queue.messages = <<>>
  /\ SentWith(Transcript(received))

\* C3 (as stated): in an interview session, whenever the status has been set
\* to FINISHED, createFeedback is eventually invoked with the session's ids
\* and every final transcript received.
C3_FeedbackEventually == FinishPending ~> SentWith(Transcript(received))

\* C3 (amended): in an interview session, whenever the status shown is
\* FINISHED and the effect of that render has run, createFeedback has been
\* invoked and its latest invocation carries the session's interviewId,
\* userId and feedbackId and the transcript shown, which is every final
\* transcript received once none waits for a render; and whenever the status
\* of a mounted agent has been set to FINISHED, then, unless the agent is
\* removed or the status is set again first, FINISHED is eventually shown
\* with createFeedback invoked with every final transcript received.
C3_FeedbackOnFinish ==
  /\ []((type = "interview" /\ callStatus = "FINISHED" /\ pendingEffect = <<>>) =>
          /\ SentWith(messages)
          /\ (phase = "mounted" /\ queue.messages = <<>>) => SentWith(Transcript(received)))
  /\ (FinishPending ~> (FeedbackSent \/ ~FinishPending))

\* C3 witness: an interview call has finished after two final transcripts
\* and createFeedback was invoked with both.
C3_Witness ==
  /\ type = "interview"
  /\ callStatus = "FINISHED"
  /\ Len(feedbackCalls) = 1
  /\ feedbackCalls[1].transcript =
       <<[role |-> "user", content |-> "a"], [role |-> "assistant", content |-> "b"]>>

\* the redirect the claim prescribes for a createFeedback result
C4_Target(r) ==
  IF r.thrown THEN "/"
  ELSE IF r.success = TRUE /\ r.feedbackId \notin {"", Unset}
         THEN "/interview/interview-1/feedback"
         ELSE "/"

\* C4: the step in which a createFeedback invocation completes makes exactly
\* one redirect, to the feedback page iff the result has success true and a
\* non-empty id, and to "/" otherwise.
C4_OneRedirectPerFeedback ==
  [][\A k \in 1..Len(feedbackCalls) :
       (feedbackCalls[k].state = "pending" /\ feedbackCalls'[k].state = "settled") =>
         redirects' = Append(redirects, C4_Target(feedbackCalls'[k].result))]_vars

\* C4 witness: one invocation resolved with success and an empty id, another
\* with success and an id.
C4_Witness ==
  /\ Len(feedbackCalls) = 2
  /\ feedbackCalls[1].state = "settled" /\ feedbackCalls[2].state = "settled"
  /\ feedbackCalls[1].result = [thrown |-> FALSE, success |-> TRUE, feedbackId |-> ""]
  /\ feedbackCalls[2].result = [thrown |-> FALSE, success |-> TRUE, feedbackId |-> "feedback-1"]
  /\ redirects = <<"/", "/interview/interview-1/feedback">>

\* C5 (as stated): the step in which a handleCall invocation ends on a
\* failure after the microphone check (missing configuration, or vapi.start
\* rejected) leaves that invocation's connect timer not armed, shows one
\* alert and sets the status of a mounted agent to INACTIVE.
C5_FailedStartResets ==
  [][\A i \in 1..Len(calls) :
       (calls[i].pc \in {"mic", "starting"} /\ calls'[i].pc \in {"failed", "escaped"}) =>
         /\ calls'[i].timer # "armed"
         /\ alerts' = Append(alerts, "Failed to start call")
         /\ (phase = "mounted" => Status' = "INACTIVE")]_vars

\* C6 (as stated): an error event delivered while the call is CONNECTING or
\* ACTIVE is logged, alerts the user and takes the status out of
\* CONNECTING/ACTIVE or redirects.
C6_ErrorEventHandled ==
  [][(errorLog' > errorLog /\ Status \in {"CONNECTING", "ACTIVE"}) =>
       /\ Len(alerts') > Len(alerts)
       /\ (Status' \notin {"CONNECTING", "ACTIVE"} \/ Len(redirects') > Len(redirects))]_vars

\* C7 (as stated): when a connect timer fires while its invocation still
\* awaits vapi.start and the status is still CONNECTING, the status is set
\* to INACTIVE.
C7_TimeoutResets ==
  [][\A i \in 1..Len(calls) :
       (calls[i].pc = "starting" /\ calls[i].timer = "armed" /\ calls'[i].timer = "fired"
          /\ phase = "mounted" /\ Status = "CONNECTING") =>
         Status' = "INACTIVE"]_vars

\* invocations of handleCall that got past the microphone check
PastMicCheck == {i \in 1..Len(calls) : calls[i].pc \notin {"mic", "denied"}}

\* C8: an invocation that awaits the microphone or was denied it has set no
\* timer, every vapi.start belongs to an invocation past the microphone check,
\* the click that starts an invocation sets neither the status nor the
\* transcript (what is shown and queued together), shows no alert, sets no
\* timer and calls no vapi.start, and the step in which the permission is
\* denied shows one alert and leaves the status and the transcript (rendered
\* and queued), every timer and the vapi.start calls as they were.
C8_MicrophoneFirst ==
  /\ [](/\ \A i \in 1..Len(calls) : calls[i].pc \in {"mic", "denied"} => calls[i].timer = "none"
        /\ Len(starts) <= Cardinality(PastMicCheck))
  /\ [][Len(calls') > Len(calls) =>
          /\ Last(calls').pc = "mic" /\ Last(calls').timer = "none"
          /\ Status' = Status
          /\ messages' \o queue'.messages = messages \o queue.messages
          /\ alerts' = alerts
          /\ starts' = starts
          /\ \A j \in 1..Len(calls) : calls'[j] = calls[j]]_vars
  /\ [][\A i \in 1..Len(calls) :
          (calls[i].pc = "mic" /\ calls'[i].pc = "denied") =>
            /\ Len(alerts') = Len(alerts) + 1
            /\ callStatus' = callStatus
            /\ messages' = messages
            /\ queue' = queue
            /\ starts' = starts
            /\ \A j \in 1..Len(calls) : calls'[j].timer = calls[j].timer]_vars

\* C8 witness: the permission was denied while another invocation had
\* brought the call to CONNECTING.
C8_Witness ==
  /\ Len(calls) = 2
  /\ calls[1].pc = "starting" /\ calls[1].timer = "armed"
  /\ calls[2].pc = "denied"
  /\ callStatus = "CONNECTING"
  /\ Len(starts) = 1

\* the cleanup of the unmount has run
Cleaned == phase = "unmounted" /\ \E e \in Events : listeners[e] = <<>>

\* C9: each of the six events has at most one handler registered; while
\* mounted, and after the removal until the cleanup runs, it is the handler
\* of the latest effect run; before mount none is registered, and the
\* cleanup of the unmount leaves none, for good.
C9_ListenersBalanced ==
  /\ [](\A e \in Events :
          /\ Len(listeners[e]) <= 1
          /\ phase = "new" => listeners[e] = <<>>
          /\ phase = "mounted" => listeners[e] = <<runs>>
          /\ phase = "unmounted" => listeners[e] \in {<<runs>>, <<>>}
          /\ Cleaned => listeners[e] = <<>>)
  /\ [][(phase = "unmounted" /\ listeners' # listeners) =>
          \A e \in Events : listeners'[e] = <<>>]_vars

\* C9 witness: mounted, re-run twice on dependency changes, then removed
\* and cleaned up, an error event having been logged by its handler.
C9_Witness ==
  /\ phase = "unmounted"
  /\ runs = 3
  /\ errorLog = 1
  /\ callStatus = "INACTIVE"
  /\ \A e \in Events : listeners[e] = <<>>

\* C10 (as stated): in a generate session vapi.start is never invoked with an
\* unset identifier.
C10_StartIdentifierSet ==
  type = "generate" => \A k \in 1..Len(starts) : starts[k] # Unset

\* runs of the effect of a render that shows FINISHED made by the step: of
\* the effect that had yet to run, and of the effect of a render made in a
\* click's task
FinishedEffects ==
  (IF pendingEffect # <<>> /\ pendingEffect' = <<>> /\ callStatus = "FINISHED" THEN 1 ELSE 0)
  + (IF /\ callStatus' = "FINISHED" /\ pendingEffect' = <<>>
        /\ (callStatus' # callStatus \/ messages' # messages)
       THEN 1 ELSE 0)

\* C14: in a generate session createFeedback is never invoked, whenever the
\* status shown is FINISHED and the effect of that render has run a redirect
\* to "/" was made, and every step pushes exactly one redirect to "/" for
\* each run it makes of the effect of a render that shows FINISHED, and
\* nothing else.
C14_GenerateRedirectsHome ==
  /\ [](type = "generate" =>
          /\ feedbackCalls = <<>>
          /\ (callStatus = "FINISHED" /\ pendingEffect = <<>>) =>
               (Len(redirects) > 0 /\ Last(redirects) = "/"))
  /\ [][type = "generate" => redirects' = redirects \o Times(FinishedEffects, "/")]_vars

\* C14 witness: a generate session finished with a transcript of two
\* entries and was sent home.
C14_Witness ==
  /\ type = "generate"
  /\ callStatus = "FINISHED"
  /\ pendingEffect = <<>>
  /\ Len(messages) = 2
  /\ redirects = <<"/">>
  /\ feedbackCalls = <<>>

\* C15: vapi.stop is called only by a step that starts with the status
\* ACTIVE shown by a mounted agent, that step calls it once and ends with
\* the status FINISHED shown whether vapi.stop returned or threw.
C15_DisconnectFinishes ==
  [][stops' # stops =>
       /\ callStatus = "ACTIVE"
       /\ phase = "mounted"
       /\ stops' = stops + 1
       /\ callStatus' = "FINISHED"]_vars

\* C15 witness: the End button was used on a started call, vapi.stop was
\* called and the call is FINISHED.
C15_Witness ==
  /\ stops = 1
  /\ Len(starts) = 1
  /\ callStatus = "FINISHED"
  /\ Finishes = 1

\* C16 (as stated): createFeedback is invoked only by the effect of the
\* render that brings the status to FINISHED, so at most once per finished
\* call.
C16_FeedbackOncePerCall ==
  [][Len(feedbackCalls') > Len(feedbackCalls) =>
       \/ pendingEffect # <<>> /\ pendingEffect[1] # "FINISHED"
       \/ callStatus # "FINISHED" /\ callStatus' = "FINISHED"]_vars

\* C17 (as stated): a connect timer that fires while the status is ACTIVE or
\* FINISHED leaves the status as it is.
C17_TimerOnlyWhenConnecting ==
  [][\A i \in 1..Len(calls) :
       (calls[i].timer = "armed" /\ calls'[i].timer = "fired"
          /\ Status \in {"ACTIVE", "FINISHED"}) =>
         Status' = Status]_vars

\* C18 (as stated): vapi.start is never invoked while the status is
\* CONNECTING or ACTIVE.
C18_SingleStart ==
  [][Len(starts') > Len(starts) => Status \notin {"CONNECTING", "ACTIVE"}]_vars

\* C20 (as stated): the isSpeaking shown is false whenever the status shown
\* is INACTIVE, CONNECTING or FINISHED.
C20_SpeakingOnlyWhenActive ==
  callStatus \in {"INACTIVE", "CONNECTING", "FINISHED"} => isSpeaking = FALSE

\* C11: a request whose user has no id returns the login prompt and calls
\* neither query; a request whose user has an id calls getInterviewsByUserId
\* and getLatestInterviews once each, with that id.
C11_HomeFetchesForUserOnly ==
  \A i \in 1..Len(renders) :
    LET r == renders[i] IN
    r.pc # "getCurrentUser" =>
      IF ~r.user.present \/ r.user.id = Unset \/ r.user.id = ""
        THEN /\ r.pc = "login-prompt"
             /\ r.getInterviewsByUserId = <<>>
             /\ r.getLatestInterviews = <<>>
        ELSE /\ r.pc \in {"Promise.all", "page"}
             /\ r.getInterviewsByUserId = <<r.user.id>>
             /\ r.getLatestInterviews = <<[userId |-> r.user.id]>>

\* C11 witness: one request by a user object with an empty id got the
\* prompt, another by user-1 got the page.
C11_Witness ==
  /\ Len(renders) = 2
  /\ renders[1].pc = "login-prompt" /\ renders[1].user = [present |-> TRUE, id |-> ""]
  /\ renders[2].pc = "page" /\ renders[2].user.id = "user-1"
  /\ renders[2].getInterviewsByUserId = <<"user-1">>

\* every submission has ended
AllReturned == \A i \in 1..Len(submits) : submits[i].pc = "returned"

\* C12: the step that starts a submission sets isLoading, every step that
\* ends one, however it ends, resets it, and once every submission has
\* ended isLoading is false, or will be at the render that is queued.
C12_LoadingResetOnEveryEnd ==
  /\ [](AllReturned => ~Loading)
  /\ [][/\ Len(submits') > Len(submits) => Loading'
        /\ \A i \in 1..Len(submits) :
             (submits[i].pc # "returned" /\ submits'[i].pc = "returned") => ~Loading']_vars

\* C12 witness: one submission ended on an unsuccessful signUp result,
\* another on a thrown error, and the form shows that it is not loading.
C12_Witness ==
  /\ Len(submits) = 2
  /\ submits[1].pc = "returned" /\ submits[1].result = "failure"
  /\ submits[2].pc = "returned" /\ submits[2].threw
  /\ ~isLoading /\ loadingQueue = <<>>

SuccessToast == [kind |-> "success", message |-> "Account created successfully! Please sign in."]

\* C13: a sign-up submission that has ended redirected to /sign-in, after the
\* one success toast, iff the account was created and signUp returned
\* success; otherwise it showed exactly one error toast and did not
\* redirect.  A submission under way has shown and pushed nothing.
C13_SignUpRedirect ==
  formType = "sign-up" =>
    \A i \in 1..Len(submits) :
      LET sub == submits[i] IN
      IF sub.pc # "returned"
        THEN sub.toasts = <<>> /\ sub.pushed = <<>>
        ELSE IF sub.created /\ sub.result = "success" /\ ~sub.threw
          THEN sub.toasts = <<SuccessToast>> /\ sub.pushed = <<"/sign-in">>
          ELSE /\ Len(sub.toasts) = 1
               /\ sub.toasts[1].kind = "error"
               /\ sub.pushed = <<>>

\* C13 witness: one sign-up ended on signUp returning success false, the
\* next one succeeded and redirected.
C13_Witness ==
  /\ formType = "sign-up"
  /\ Len(submits) = 2
  /\ submits[1].pc = "returned" /\ submits[1].result = "failure"
  /\ submits[1].toasts = <<[kind |-> "error", message |-> "rejected by the backend"]>>
  /\ submits[2].pushed = <<"/sign-in">>

\* C19 (as stated): a sign-in submission redirects only if signIn succeeded.
C19_SignInRedirect ==
  formType = "sign-in" =>
    \A i \in 1..Len(submits) : submits[i].pushed # <<>> => submits[i].result = "success"

====
